---- MODULE Spec2Model ----
(***************************************************************************)
(* Model of libtrees/tree.hpp (tree::TreeNode<T>, tree::Tree<T>) and of    *)
(* the driver libtrees/tree_test.cpp.                                      *)
(*                                                                         *)
(* The TreeNode objects alive at one time are identified by the numbers    *)
(* 1..MaxNodes.  A std::shared_ptr is a node number or NULL.  A node is    *)
(* alive while some shared_ptr to it exists: one held by the caller, one   *)
(* in a Tree's m_root, or one in the m_children of an alive node.  A       *)
(* std::weak_ptr is NULL (empty), the number of an alive node, or EXPIRED  *)
(* once the node it referred to has been destroyed; lock() of an expired   *)
(* weak_ptr is null, so the number of a destroyed node is free again.      *)
(***************************************************************************)
EXTENDS Integers, Sequences, FiniteSets, TLC

\* ---- bounds of the model ------------------------------------------------
MaxNodes == 5
MaxLen == 3
MaxTrees == 2
MaxCalls == 4
MaxMake == 3
MaxDays == 3

\* ---- values --------------------------------------------------------------
NULL == 0
EXPIRED == 0 - 1
Nodes == 1..MaxNodes
Trees == 1..MaxTrees
Values == {0, 1}
\* Arguments for an unsigned int index, and for an int index.  An unsigned
\* int is held as the int of the same 32 bits: the argument -1 is the value
\* 2^32 - 1, and every negative number is a value of 2^31 or more.
IndexInputs == (-1)..(MaxLen + 1)
IntIndexInputs == (-1)..(MaxLen + 1)

VARIABLES
    m_content,   \* TreeNode::m_content, per node
    m_parent,    \* TreeNode::m_parent (weak_ptr), per node: NULL, EXPIRED or a node
    m_children,  \* TreeNode::m_children, per node: sequence of nodes
    m_root,      \* Tree::m_root, per tree: sequence of nodes or NULL
    built,       \* the Tree objects constructed so far
    alive,       \* the TreeNode objects not yet destroyed
    held,        \* the nodes the caller keeps a shared_ptr to
    callsLeft,   \* the calls the caller may still make, Unlimited if any number
    last,        \* the last call made: operation, arguments, result
    pc,          \* tree_test.cpp main(): the statement reached
    saved,       \* tree_test.cpp main(): what it has noted for its tests
    m_childA,    \* BTreeNode::m_childA, per node: NULL or a node
    m_childB,    \* BTreeNode::m_childB, per node: NULL or a node
    m_day,       \* Date::m_day
    m_month,     \* Date::m_month
    m_year       \* Date::m_year

vars == <<m_content, m_parent, m_children, m_root, built, alive, held, callsLeft, last, pc, saved,
          m_childA, m_childB, m_day, m_month, m_year>>

\* The objects of the other classes, which no member of TreeNode or Tree touches.
others == <<m_childA, m_childB, m_day, m_month, m_year>>

\* index <= size and index >= size, for an unsigned int index and the size()
\* of a vector: the index is converted to size_t, its value kept
UIntLE(index, size) == index >= 0 /\ index <= size
UIntGE(index, size) == index < 0 \/ index >= size

\* ---- sequences -----------------------------------------------------------
Range(s) == {s[i] : i \in 1..Len(s)}

\* std::vector::insert(begin() + i, x), i counted from 0
InsertAt(s, i, x) == SubSeq(s, 1, i) \o <<x>> \o SubSeq(s, i + 1, Len(s))

\* std::vector::erase(begin() + i), i counted from 0
EraseAt(s, i) == SubSeq(s, 1, i) \o SubSeq(s, i + 2, Len(s))

\* std::find(begin, end, x) - begin: the first position of x, Len(s) for end()
FindFirst(s, x) ==
    IF \E i \in 1..Len(s) : s[i] = x
    THEN (CHOOSE i \in 1..Len(s) : s[i] = x /\ \A j \in 1..(i - 1) : s[j] # x) - 1
    ELSE Len(s)

\* ---- lifetimes -----------------------------------------------------------
RootSet(root, bt) == UNION {Range(root[t]) : t \in bt}

\* The nodes of S that keep a strong reference once every node without one
\* has been destroyed (destruction of a node releases its m_children).
RECURSIVE Sweep(_, _, _, _, _)
Sweep(S, children, root, bt, hld) ==
    LET T == {n \in S : \/ n \in hld
                        \/ n \in RootSet(root, bt)
                        \/ \E m \in S : n \in Range(children[m])}
    IN IF T = S THEN S ELSE Sweep(T, children, root, bt, hld)

\* m_parent.lock()
Lock(n) == IF m_parent[n] \in alive THEN m_parent[n] ELSE NULL

\* nodes reachable from the set S through m_children (S included)
RECURSIVE ReachFrom(_, _)
ReachFrom(S, children) ==
    LET T == S \cup UNION {Range(children[n]) : n \in S}
    IN IF T = S THEN S ELSE ReachFrom(T, children)

\* proper descendants of n
Desc(n, children) == ReachFrom(Range(children[n]), children)

\* the nodes the caller can get a shared_ptr to: the ones it holds and the
\* ones it reaches from them or from a Tree through RootNode()/Children()
Callable == ReachFrom(held \cup (RootSet(m_root, built) \ {NULL}), m_children)

\* the call record
Call(op, self, node, index, ret, err) ==
    [op |-> op, self |-> self, node |-> node, index |-> index, ret |-> ret, err |-> err]

\* a call that does not return ends the program; so does the caller's budget
Unlimited == 0 - 1
Running == last.err # "no_return" /\ callsLeft # 0

\* The state after a call: the fields as the call left them, then every node
\* whose last shared_ptr went away is destroyed.
Settle(content, parent, children, root, bt, made, hld, lst) ==
    LET live == Sweep(alive \cup made, children, root, bt, hld)
    IN /\ m_content' = [n \in Nodes |-> IF n \in live THEN content[n] ELSE 0]
       /\ m_parent' = [n \in Nodes |-> IF n \notin live THEN NULL
                                       ELSE IF parent[n] \in Nodes \ live THEN EXPIRED
                                       ELSE parent[n]]
       /\ m_children' = [n \in Nodes |-> IF n \in live THEN children[n] ELSE <<>>]
       /\ m_root' = root
       /\ built' = bt
       /\ alive' = live
       /\ held' = hld \cap live
       /\ callsLeft' = IF callsLeft = Unlimited THEN Unlimited ELSE callsLeft - 1
       /\ last' = lst
       /\ UNCHANGED others

\* no Tree and no TreeNode constructed yet
InitObjects ==
    /\ m_content = [n \in Nodes |-> 0]
    /\ m_parent = [n \in Nodes |-> NULL]
    /\ m_children = [n \in Nodes |-> <<>>]
    /\ m_root = [t \in Trees |-> <<>>]
    /\ built = {}
    /\ alive = {}
    /\ held = {}
    /\ last = Call("none", 0, 0, 0, 0, "none")
    /\ m_childA = [n \in Nodes |-> NULL]
    /\ m_childB = [n \in Nodes |-> NULL]
    /\ m_day = 0 /\ m_month = 0 /\ m_year = 0

NoSaved ==
    [node |-> NULL, parent |-> NULL, dropped |-> FALSE, below |-> {},
     size0 |-> 0, size1 |-> 0, appends |-> 0, calls |-> 0,
     stack |-> <<>>, order |-> <<>>, before |-> <<>>, tree |-> 0,
     args |-> <<>>, adjusted |-> FALSE, feb |-> 28,
     phase |-> 0, from |-> <<>>, days |-> 0]

\* any caller, making at most MaxCalls calls
Init == InitObjects /\ callsLeft = MaxCalls /\ pc = "any" /\ saved = NoSaved

\* ---- TreeNode ------------------------------------------------------------

\* new TreeNode<T>(...): the object made, when memory for it is left
CanMake == alive # Nodes
Made == CHOOSE n \in Nodes \ alive : \A m \in Nodes \ alive : n <= m

\* std::make_shared<TreeNode<T>>(value), kept by the caller: TreeNode(const T&)
NewNode(value) ==
    /\ Running /\ CanMake
    /\ LET n == Made IN
       Settle([m_content EXCEPT ![n] = value], m_parent, m_children, m_root,
              built, {n}, held \cup {n}, Call("NewNode", n, NULL, 0, n, "none"))

\* TreeNode::Insert(const T& value, unsigned int index).  No instantiation of
\* this member compiles: it passes `this`, a TreeNode*, where the constructor
\* takes a shared_ptr (whose constructor from a pointer is explicit), and a
\* shared_ptr where shared_ptr::reset takes a pointer.  No build contains a
\* call of it, so no call has an effect.
InsertValue(self, value, index) ==
    /\ Running /\ self \in Callable
    /\ Settle(m_content, m_parent, m_children, m_root, built, {}, held,
              Call("InsertValue", self, NULL, index, NULL, "ill_formed"))

\* TreeNode::Append(const shared_ptr&): the fields it leaves
AppendNodeParent(self, node) == [m_parent EXCEPT ![node] = self]
AppendNodeChildren(self, node) == [m_children EXCEPT ![self] = Append(@, node)]

\* variant of Insert(node, index) that ignores the index and appends
InsertNodeAlwaysAppend(self, node, index) == AppendNodeChildren(self, node)

\* TreeNode::Insert(const shared_ptr& node, unsigned int index)
InsertNodeChildren(self, node, index) ==
    IF UIntLE(index, Len(m_children[self]))
    THEN [m_children EXCEPT ![self] = InsertAt(@, index, node)]
    ELSE AppendNodeChildren(self, node)

InsertNodeParent(self, node, index) ==
    IF UIntLE(index, Len(m_children[self]))
    THEN [m_parent EXCEPT ![node] = self]
    ELSE AppendNodeParent(self, node)

InsertNode(self, node, index) ==
    /\ Running /\ self \in Callable /\ node \in Callable \cup {NULL}
    /\ Len(m_children[self]) < MaxLen
    /\ IF node # NULL
       THEN Settle(m_content, InsertNodeParent(self, node, index),
                   InsertNodeChildren(self, node, index), m_root, built, {}, held,
                   Call("InsertNode", self, node, index, node, "none"))
       ELSE Settle(m_content, m_parent, m_children, m_root, built, {}, held,
                   Call("InsertNode", self, node, index, NULL, "invalid_argument"))

\* variant of Append(value) that pushes this node instead of the new one
AppendValueSelf(self, value) ==
    /\ Running /\ self \in Callable /\ CanMake
    /\ Len(m_children[self]) < MaxLen
    /\ Settle(m_content, m_parent, [m_children EXCEPT ![self] = Append(@, self)],
              m_root, built, {}, held,
              Call("AppendValue", self, NULL, 0, self, "none"))

\* TreeNode::Append(const T& value)
AppendValue(self, value) ==
    /\ Running /\ self \in Callable /\ CanMake
    /\ Len(m_children[self]) < MaxLen
    /\ LET n == Made IN
       Settle([m_content EXCEPT ![n] = value], [m_parent EXCEPT ![n] = self],
              [m_children EXCEPT ![self] = Append(@, n)], m_root, built, {n}, held,
              Call("AppendValue", self, NULL, 0, n, "none"))

\* TreeNode::Append(const shared_ptr& node)
AppendNode(self, node) ==
    /\ Running /\ self \in Callable /\ node \in Callable \cup {NULL}
    /\ Len(m_children[self]) < MaxLen
    /\ IF node # NULL
       THEN Settle(m_content, AppendNodeParent(self, node), AppendNodeChildren(self, node),
                   m_root, built, {}, held,
                   Call("AppendNode", self, node, 0, node, "none"))
       ELSE Settle(m_content, m_parent, m_children, m_root, built, {}, held,
                   Call("AppendNode", self, node, 0, NULL, "invalid_argument"))

\* variant of RemoveChild(index) that erases the last child
RemoveChildIndexPopBack(self, index) ==
    [m_children EXCEPT ![self] = SubSeq(@, 1, Len(@) - 1)]

\* TreeNode::RemoveChild(unsigned int index)
RemoveChildIndexChildren(self, index) ==
    [m_children EXCEPT ![self] = EraseAt(@, index)]

RemoveChildIndex(self, index) ==
    /\ Running /\ self \in Callable
    /\ IF UIntGE(index, Len(m_children[self]))
       THEN Settle(m_content, m_parent, m_children, m_root, built, {}, held,
                   Call("RemoveChildIndex", self, NULL, index, NULL, "out_of_range"))
       ELSE Settle(m_content, m_parent, RemoveChildIndexChildren(self, index),
                   m_root, built, {}, held,
                   Call("RemoveChildIndex", self, NULL, index, NULL, "none"))

\* variant of RemoveChild(node) that erases the last child when node is found
RemoveChildNodeLast(children, self, node) ==
    IF FindFirst(children[self], node) # Len(children[self])
    THEN [children EXCEPT ![self] = EraseAt(@, Len(@) - 1)]
    ELSE children

\* variant of RemoveChild(node) that erases the last child when node is absent
RemoveChildNodeOrLast(children, self, node) ==
    IF FindFirst(children[self], node) # Len(children[self])
    THEN [children EXCEPT ![self] = EraseAt(@, FindFirst(children[self], node))]
    ELSE [children EXCEPT ![self] = SubSeq(@, 1, Len(@) - 1)]

\* TreeNode::RemoveChild(const shared_ptr& node): the m_children it leaves
RemoveChildNodeChildren(children, self, node) ==
    IF FindFirst(children[self], node) # Len(children[self])
    THEN [children EXCEPT ![self] = EraseAt(@, FindFirst(children[self], node))]
    ELSE children

RemoveChildNode(self, node) ==
    /\ Running /\ self \in Callable /\ node \in Callable \cup {NULL}
    /\ Settle(m_content, m_parent, RemoveChildNodeChildren(m_children, self, node),
              m_root, built, {}, held,
              Call("RemoveChildNode", self, node, 0, NULL, "none"))

\* variant of Detatch() and Drop() that leaves the parent's children alone
DetatchChildrenKept(self) == m_children

\* TreeNode::Detatch(): the m_children it leaves.  m_parent is not assigned.
DetatchChildren(self) ==
    IF Lock(self) # NULL
    THEN RemoveChildNodeChildren(m_children, Lock(self), self)
    ELSE m_children

\* The caller keeps the shared_ptr returned.
Detatch(self) ==
    /\ Running /\ self \in Callable
    /\ Settle(m_content, m_parent, DetatchChildren(self), m_root, built, {},
              held \cup {self}, Call("Detatch", self, NULL, 0, self, "none"))

\* TreeNode::ClearChildren()
ClearChildren(self) ==
    /\ Running /\ self \in Callable
    /\ Settle(m_content, m_parent, [m_children EXCEPT ![self] = <<>>], m_root,
              built, {}, held, Call("ClearChildren", self, NULL, 0, NULL, "none"))

\* variant of RecursiveDrop() that also takes self out of its parent's children
RecursiveDropDetaching(self) ==
    [n \in Nodes |->
        IF n \in ReachFrom({self}, m_children) THEN <<>>
        ELSE IF n = Lock(self) /\ FindFirst(m_children[n], self) # Len(m_children[n])
             THEN EraseAt(m_children[n], FindFirst(m_children[n], self))
             ELSE m_children[n]]

\* variant of RecursiveDrop() without the final m_children.clear()
RecursiveDropKeepingOwn(self) ==
    [n \in Nodes |-> IF n \in Desc(self, m_children) THEN <<>> ELSE m_children[n]]

\* TreeNode::RecursiveDrop(): the m_children it leaves when it returns.  Every
\* node reached from self through m_children ends with m_children cleared;
\* m_parent of no node is assigned and self stays where it is.
RecursiveDropChildren(self) ==
    [n \in Nodes |-> IF n \in ReachFrom({self}, m_children) THEN <<>> ELSE m_children[n]]

\* The recursion returns only if no node below self reaches itself.
RecursiveDropReturns(self) ==
    \A n \in ReachFrom({self}, m_children) : n \notin Desc(n, m_children)

RecursiveDrop(self) ==
    /\ Running /\ self \in Callable
    /\ IF RecursiveDropReturns(self)
       THEN Settle(m_content, m_parent, RecursiveDropChildren(self), m_root, built,
                   {}, held, Call("RecursiveDrop", self, NULL, 0, NULL, "none"))
       ELSE Settle(m_content, m_parent, m_children, m_root, built, {}, held,
                   Call("RecursiveDrop", self, NULL, 0, NULL, "no_return"))

\* TreeNode::Child(int index) where the index it reads is inside m_children
ChildResult(self, index) ==
    IF Len(m_children[self]) = 0 THEN NULL
    ELSE IF index < 0 \/ index > Len(m_children[self])
    THEN m_children[self][Len(m_children[self])]
    ELSE m_children[self][index + 1]

\* TreeNode::Child(int index): index == size() passes both tests and
\* m_children[index] reads one element past the end, whatever lies there.
Child(self, index) ==
    /\ Running /\ self \in Callable
    /\ IF Len(m_children[self]) # 0 /\ index = Len(m_children[self])
       THEN \E found \in alive \cup {NULL} :
               Settle(m_content, m_parent, m_children, m_root, built, {}, held,
                      Call("Child", self, NULL, index, found, "undefined"))
       ELSE Settle(m_content, m_parent, m_children, m_root, built, {}, held,
                   Call("Child", self, NULL, index, ChildResult(self, index), "none"))

\* TreeNode::FindChild(node): -1 for end(), else m_children.end() - result
FindChildResult(self, node) ==
    IF FindFirst(m_children[self], node) = Len(m_children[self])
    THEN 0 - 1
    ELSE Len(m_children[self]) - FindFirst(m_children[self], node)

FindChild(self, node) ==
    /\ Running /\ self \in Callable /\ node \in Callable \cup {NULL}
    /\ Settle(m_content, m_parent, m_children, m_root, built, {}, held,
              Call("FindChild", self, node, 0, FindChildResult(self, node), "none"))

\* TreeNode::Drop(): as Detatch() on the parent's side, then a copy of
\* m_children is returned; the caller keeps the vector returned.
Drop(self) ==
    /\ Running /\ self \in Callable
    /\ Settle(m_content, m_parent, DetatchChildren(self), m_root, built, {},
              held \cup Range(DetatchChildren(self)[self]),
              Call("Drop", self, NULL, 0, DetatchChildren(self)[self], "none"))

\* variant of Swap that loses NodeB's old content: no temporary
SwapContentNoTemp(NodeA, NodeB) == [m_content EXCEPT ![NodeA] = m_content[NodeB]]

\* TreeNode::Swap(NodeA, NodeB): the m_content it leaves
SwapContent(NodeA, NodeB) ==
    [m_content EXCEPT ![NodeA] = m_content[NodeB], ![NodeB] = m_content[NodeA]]

Swap(NodeA, NodeB) ==
    /\ Running /\ NodeA \in Callable /\ NodeB \in Callable
    /\ Settle(SwapContent(NodeA, NodeB), m_parent, m_children, m_root, built, {},
              held, Call("Swap", NodeA, NodeB, 0, NULL, "none"))

\* TreeNode::Content(const T& content)
Content(self, content) ==
    /\ Running /\ self \in Callable
    /\ Settle([m_content EXCEPT ![self] = content], m_parent, m_children, m_root,
              built, {}, held, Call("Content", self, NULL, 0, content, "none"))

\* TreeNode::operator=(const T content): returns GetSharedPtr()
Assign(self, content) ==
    /\ Running /\ self \in Callable
    /\ Settle([m_content EXCEPT ![self] = content], m_parent, m_children, m_root,
              built, {}, held,
              Call("Assign", self, NULL, 0, [value |-> content, ptr |-> self], "none"))

\* ---- comparisons -----------------------------------------------------------
\* friend operators: TreeNode with TreeNode, and TreeNode with a value U
EqNode(lhs, rhs) == m_content[lhs] = m_content[rhs]
EqValue(lhs, rhs) == m_content[lhs] = rhs
NeNode(lhs, rhs) == ~EqNode(lhs, rhs)
NeValue(lhs, rhs) == ~EqValue(lhs, rhs)
LtNode(lhs, rhs) == m_content[lhs] < m_content[rhs]
LtValue(lhs, rhs) == m_content[lhs] < rhs
\* variant of operator>(node, node) written as operator>(node, value) is
GtNodeAsLess(lhs, rhs) == m_content[lhs] < m_content[rhs]
GtNode(lhs, rhs) == m_content[lhs] > m_content[rhs]
\* operator>(node, value) returns lhs.m_content < rhs
GtValue(lhs, rhs) == m_content[lhs] < rhs
LeNode(lhs, rhs) == ~GtNode(lhs, rhs)
LeValue(lhs, rhs) == ~GtValue(lhs, rhs)
GeNode(lhs, rhs) == ~LtNode(lhs, rhs)
GeValue(lhs, rhs) == ~LtValue(lhs, rhs)

Relations == {"==", "!=", "<", ">", "<=", ">="}

RelNode(rel, lhs, rhs) ==
    CASE rel = "==" -> EqNode(lhs, rhs)
      [] rel = "!=" -> NeNode(lhs, rhs)
      [] rel = "<" -> LtNode(lhs, rhs)
      [] rel = ">" -> GtNode(lhs, rhs)
      [] rel = "<=" -> LeNode(lhs, rhs)
      [] rel = ">=" -> GeNode(lhs, rhs)

RelValue(rel, lhs, rhs) ==
    CASE rel = "==" -> EqValue(lhs, rhs)
      [] rel = "!=" -> NeValue(lhs, rhs)
      [] rel = "<" -> LtValue(lhs, rhs)
      [] rel = ">" -> GtValue(lhs, rhs)
      [] rel = "<=" -> LeValue(lhs, rhs)
      [] rel = ">=" -> GeValue(lhs, rhs)

\* (*lhs) rel (*rhs)
CompareNodes(rel, lhs, rhs) ==
    /\ Running /\ lhs \in Callable /\ rhs \in Callable
    /\ Settle(m_content, m_parent, m_children, m_root, built, {}, held,
              Call("CompareNodes", lhs, rhs, 0,
                   [rel |-> rel, value |-> 0, is |-> RelNode(rel, lhs, rhs)], "none"))

\* (*lhs) rel value
CompareValue(rel, lhs, value) ==
    /\ Running /\ lhs \in Callable
    /\ Settle(m_content, m_parent, m_children, m_root, built, {}, held,
              Call("CompareValue", lhs, NULL, 0,
                   [rel |-> rel, value |-> value, is |-> RelValue(rel, lhs, value)], "none"))

\* ---- Tree ----------------------------------------------------------------

\* Tree::Tree()
TreeNew(t) ==
    /\ Running /\ t \notin built
    /\ Settle(m_content, m_parent, m_children, [m_root EXCEPT ![t] = <<>>],
              built \cup {t}, {}, held, Call("TreeNew", t, NULL, 0, NULL, "none"))

\* Tree::Tree(const shared_ptr& node): no test of node
TreeFromNode(t, node) ==
    /\ Running /\ t \notin built /\ node \in Callable \cup {NULL}
    /\ Settle(m_content, m_parent, m_children, [m_root EXCEPT ![t] = <<node>>],
              built \cup {t}, {}, held, Call("TreeFromNode", t, node, 0, NULL, "none"))

\* Tree::Tree(T content)
TreeFromContent(t, content) ==
    /\ Running /\ t \notin built /\ CanMake
    /\ LET n == Made IN
       Settle([m_content EXCEPT ![n] = content], m_parent, m_children,
              [m_root EXCEPT ![t] = <<n>>], built \cup {t}, {n}, held,
              Call("TreeFromContent", t, NULL, 0, NULL, "none"))

\* variant of Clear() that drops the last root only
ClearRootPopBack(t) == [m_root EXCEPT ![t] = SubSeq(@, 1, Len(@) - 1)]

\* Tree::Clear()
ClearRoot(t) == [m_root EXCEPT ![t] = <<>>]

Clear(t) ==
    /\ Running /\ t \in built
    /\ Settle(m_content, m_parent, m_children, ClearRoot(t), built, {}, held,
              Call("Clear", t, NULL, 0, NULL, "none"))

\* Tree::AddRootNode(const shared_ptr& node, int index).  No instantiation of
\* this member compiles: `m_root.begin + index` adds an int to a member
\* function name.  No build contains a call of it, so no call has an effect.
AddRootNodeNode(t, node, index) ==
    /\ Running /\ t \in built /\ node \in Callable \cup {NULL}
    /\ Settle(m_content, m_parent, m_children, m_root, built, {}, held,
              Call("AddRootNodeNode", t, node, index, NULL, "ill_formed"))

\* Tree::AddRootNode(const T& content, int index): returns void
AddRootNodeContentRoot(t, n, index) ==
    IF (index < 0) \/ (index > Len(m_root[t]))
    THEN [m_root EXCEPT ![t] = Append(@, n)]
    ELSE [m_root EXCEPT ![t] = InsertAt(@, index, n)]

AddRootNodeContent(t, content, index) ==
    /\ Running /\ t \in built /\ CanMake
    /\ Len(m_root[t]) < MaxLen
    /\ LET n == Made IN
       Settle([m_content EXCEPT ![n] = content], m_parent, m_children,
              AddRootNodeContentRoot(t, n, index), built, {n}, held,
              Call("AddRootNodeContent", t, NULL, index, NULL, "none"))

\* ---- the caller's own shared_ptr variables --------------------------------

\* the caller stores a shared_ptr got from RootNode(), Children() or Child()
Hold(n) ==
    /\ Running /\ n \in Callable /\ n \notin held
    /\ Settle(m_content, m_parent, m_children, m_root, built, {}, held \cup {n},
              Call("Hold", n, NULL, 0, NULL, "none"))

\* a shared_ptr variable of the caller goes out of scope
Release(n) ==
    /\ Running /\ n \in held
    /\ Settle(m_content, m_parent, m_children, m_root, built, {}, held \ {n},
              Call("Release", n, NULL, 0, NULL, "none"))

\* ---- Tree::TreeSize -------------------------------------------------------

\* variant of TreeSize that counts the elements without descending
RECURSIVE CountSeqShallow(_, _)
CountSeqShallow(s, children) ==
    IF s = <<>> THEN 0 ELSE 1 + CountSeqShallow(Tail(s), children)

\* The loop of Tree::TreeSize(bool) over m_root and the loop of
\* Tree::TreeSize(startingNode, bool) over startingNode->Children(): each
\* element adds the size below it and one for itself.
RECURSIVE CountSeq(_, _)
CountSeq(s, children) ==
    IF s = <<>> THEN 0
    ELSE CountSeq(children[Head(s)], children) + 1 + CountSeq(Tail(s), children)

\* Tree::TreeSize(startingNode, false)
TreeSizeFrom(startingNode, children) == CountSeq(children[startingNode], children)

\* Tree::TreeSize(false)
TreeSize(t) == CountSeq(m_root[t], m_children)

\* ---- any caller ------------------------------------------------------------
Free == UNCHANGED <<pc, saved>>

Next ==
    \/ \E v \in Values : NewNode(v) /\ Free
    \/ \E self \in Nodes, v \in Values, i \in IndexInputs : InsertValue(self, v, i) /\ Free
    \/ \E self \in Nodes, node \in Nodes \cup {NULL}, i \in IndexInputs :
          InsertNode(self, node, i) /\ Free
    \/ \E self \in Nodes, v \in Values : AppendValue(self, v) /\ Free
    \/ \E self \in Nodes, node \in Nodes \cup {NULL} : AppendNode(self, node) /\ Free
    \/ \E self \in Nodes, i \in IndexInputs : RemoveChildIndex(self, i) /\ Free
    \/ \E self \in Nodes, node \in Nodes \cup {NULL} : RemoveChildNode(self, node) /\ Free
    \/ \E self \in Nodes : ClearChildren(self) /\ Free
    \/ \E self \in Nodes : Detatch(self) /\ Free
    \/ \E self \in Nodes : RecursiveDrop(self) /\ Free
    \/ \E t \in Trees : TreeNew(t) /\ Free
    \/ \E t \in Trees, node \in Nodes \cup {NULL} : TreeFromNode(t, node) /\ Free
    \/ \E t \in Trees, v \in Values : TreeFromContent(t, v) /\ Free
    \/ \E t \in Trees : Clear(t) /\ Free
    \/ \E t \in Trees, node \in Nodes \cup {NULL}, i \in IntIndexInputs :
          AddRootNodeNode(t, node, i) /\ Free
    \/ \E t \in Trees, v \in Values, i \in IntIndexInputs : AddRootNodeContent(t, v, i) /\ Free
    \/ \E n \in Nodes : Hold(n) /\ Free
    \/ \E n \in Nodes : Release(n) /\ Free

Spec == Init /\ [][Next]_vars

\* ---- tree_test.cpp main(), for any tree it may build ------------------------
\* tree1 and tree2 of main(), and its test_val: the content of a node has no
\* part in what main() tests of the structure
Tree1 == 1
Tree2 == 2
TestVal == 42
TestValues == {TestVal}
\* tree1.AddRootNode(test_val): main() leaves the index to its default, -1
DefaultIndex == 0 - 1

InitTest == InitObjects /\ callsLeft = Unlimited /\ pc = "start" /\ saved = NoSaved

\* tree::Tree<int> tree1;
TestTree1 ==
    /\ pc = "start"
    /\ TreeNew(Tree1)
    /\ pc' = "build" /\ saved' = saved

\* tree1.AddRootNode(test_val);
TestAddRoot(value, index) ==
    /\ pc = "build"
    /\ AddRootNodeContent(Tree1, value, index)
    /\ pc' = "build" /\ saved' = saved

\* node1->Append(test_val); node2->Append(i); nodeLoop->Append(j);
TestAppend(self, value) ==
    /\ pc = "build"
    /\ AppendValue(self, value)
    /\ pc' = "build" /\ saved' = [saved EXCEPT !.appends = @ + 1]

\* node2->Child(2)->RecursiveDrop();
TestRecursiveDrop(self) ==
    /\ pc = "build"
    /\ RecursiveDrop(self)
    /\ pc' = "dropped"
    /\ saved' = [saved EXCEPT !.node = self, !.dropped = TRUE,
                              !.below = Desc(self, m_children),
                              !.size0 = TreeSize(Tree1)]

\* node2->Child(2)->Detatch(), the node being a child
TestDetatch(self) ==
    /\ pc \in {"build", "dropped"}
    /\ pc = "dropped" => self = saved.node
    /\ Lock(self) # NULL
    /\ Detatch(self)
    /\ pc' = "detached"
    /\ saved' = [saved EXCEPT !.node = self, !.parent = Lock(self),
                              !.size0 = IF pc = "dropped" THEN @ ELSE TreeSize(Tree1),
                              !.size1 = TreeSize(Tree1)]

\* tree::Tree<int> tree2(...): the constructor, given the node detached
TestTree2 ==
    /\ pc = "detached"
    /\ TreeFromNode(Tree2, saved.node)
    /\ pc' = "tree2" /\ saved' = saved

\* ... and the end of that statement: the temporary shared_ptr goes away
TestTemporary ==
    /\ pc = "tree2"
    /\ Release(saved.node)
    /\ pc' = "rooted" /\ saved' = saved

\* tree2.RootNode()[0]->Detatch()
TestDetatchRoot ==
    /\ pc = "rooted"
    /\ Detatch(saved.node)
    /\ pc' = "detached2" /\ saved' = saved

\* node2->Insert(..., 1);
TestInsert(index) ==
    /\ pc \in {"detached", "detached2"}
    /\ InsertNode(saved.parent, saved.node, index)
    /\ pc' = "inserted" /\ saved' = saved

\* tree2.Clear();
TestClear(t) ==
    /\ pc \in {"build", "inserted"}
    /\ Clear(t)
    /\ pc' = "cleared"
    /\ saved' = [saved EXCEPT !.size0 = TreeSize(t)]

NextTest ==
    \/ TestTree1
    \/ \E v \in TestValues : TestAddRoot(v, DefaultIndex)
    \/ \E self \in Nodes, v \in TestValues : TestAppend(self, v)
    \/ \E self \in Nodes : TestRecursiveDrop(self)
    \/ \E self \in Nodes : TestDetatch(self)
    \/ TestTree2
    \/ TestTemporary
    \/ TestDetatchRoot
    \/ \E i \in IndexInputs : TestInsert(i)
    \/ \E t \in Trees : TestClear(t)

SpecTest == InitTest /\ [][NextTest]_vars

\* ---- a caller that builds trees and then uses them ---------------------------
\* The caller makes nodes and appends values to them, as main() does, keeping
\* some of the shared_ptr it gets (at most MaxNodes such steps), and then
\* makes one call of an operation on the structure; RemoveChild(node) it may
\* make twice.  The contents have no part in these operations.
InitOps == InitObjects /\ callsLeft = Unlimited /\ pc = "make" /\ saved = NoSaved

Make ==
    /\ pc = "make" /\ saved.calls < MaxNodes
    /\ pc' = "make" /\ saved' = [saved EXCEPT !.calls = @ + 1]

Use == pc = "make" /\ pc' = "used" /\ saved' = saved

\* the call just made, made again with the same arguments
RemoveChildNodeAgain ==
    /\ pc = "used" /\ last.op = "RemoveChildNode"
    /\ RemoveChildNode(last.self, last.node)
    /\ pc' = "again" /\ saved' = saved

NextOps ==
    \/ \E v \in TestValues : Make /\ NewNode(v)
    \/ \E self \in Nodes, v \in TestValues : Make /\ AppendValue(self, v)
    \/ \E n \in Nodes : Make /\ Hold(n)
    \/ \E n \in Nodes : Make /\ Release(n)
    \/ \E self \in Nodes : Use /\ Detatch(self)
    \/ \E self \in Nodes, i \in IndexInputs : Use /\ RemoveChildIndex(self, i)
    \/ \E self \in Nodes, node \in Nodes \cup {NULL} : Use /\ RemoveChildNode(self, node)
    \/ RemoveChildNodeAgain
    \/ \E self \in Nodes, node \in Nodes \cup {NULL} : Use /\ FindChild(self, node)
    \/ \E self \in Nodes : Use /\ Drop(self)
    \/ \E self \in Nodes, i \in IntIndexInputs : Use /\ Child(self, i)

SpecOps == InitOps /\ [][NextOps]_vars

\* ---- a caller that builds trees and then reads or writes contents ------------
\* As above with contents that differ, at most MaxMake steps to build, and
\* then one call of an operation on the contents.
MakeFew ==
    /\ pc = "make" /\ saved.calls < MaxMake
    /\ pc' = "make" /\ saved' = [saved EXCEPT !.calls = @ + 1]

NextContent ==
    \/ \E v \in Values : MakeFew /\ NewNode(v)
    \/ \E self \in Nodes, v \in Values : MakeFew /\ AppendValue(self, v)
    \/ \E a \in Nodes, b \in Nodes : Use /\ Swap(a, b)
    \/ \E self \in Nodes, v \in Values : Use /\ Content(self, v)
    \/ \E self \in Nodes, v \in Values : Use /\ Assign(self, v)
    \/ \E rel \in Relations, a \in Nodes, b \in Nodes : Use /\ CompareNodes(rel, a, b)
    \/ \E rel \in Relations, a \in Nodes, v \in Values : Use /\ CompareValue(rel, a, v)

SpecContent == InitOps /\ [][NextContent]_vars

\* ---- a caller that may attach a node anywhere ---------------------------------
\* At most MaxMake steps to build, Insert and Append of existing nodes under
\* any node included (tree.hpp:9-15: circular dependencies are not checked),
\* and then one call of an operation.
NextCycle ==
    \/ \E v \in TestValues : MakeFew /\ NewNode(v)
    \/ \E t \in Trees, v \in TestValues : MakeFew /\ TreeFromContent(t, v)
    \/ \E self \in Nodes, v \in TestValues : MakeFew /\ AppendValue(self, v)
    \/ \E self \in Nodes, node \in Nodes : MakeFew /\ AppendNode(self, node)
    \/ \E self \in Nodes, v \in TestValues : Use /\ AppendValue(self, v)
    \/ \E self \in Nodes, v \in TestValues, i \in IndexInputs : Use /\ InsertValue(self, v, i)
    \/ \E self \in Nodes, node \in Nodes : Use /\ AppendNode(self, node)
    \/ \E self \in Nodes, node \in Nodes, i \in IndexInputs : Use /\ InsertNode(self, node, i)
    \/ \E t \in Trees, v \in TestValues, i \in IntIndexInputs : Use /\ AddRootNodeContent(t, v, i)
    \/ \E self \in Nodes, i \in IndexInputs : Use /\ RemoveChildIndex(self, i)
    \/ \E self \in Nodes, node \in Nodes : Use /\ RemoveChildNode(self, node)
    \/ \E self \in Nodes : Use /\ ClearChildren(self)
    \/ \E self \in Nodes : Use /\ Detatch(self)
    \/ \E self \in Nodes : Use /\ Drop(self)
    \/ \E self \in Nodes : Use /\ RecursiveDrop(self)
    \/ \E a \in Nodes, b \in Nodes : Use /\ Swap(a, b)
    \/ \E t \in Trees : Use /\ Clear(t)

SpecCycle == InitOps /\ [][NextCycle]_vars

\* ---- RecursiveDrop and TreeSize, one call frame at a time --------------------
\* The library's state, which a step inside a traversal leaves alone.
lib == <<m_content, m_parent, m_children, m_root, built, alive, held, callsLeft, others>>

\* A call frame: the node whose loop runs, the sequence the loop ranges over
\* when it is a copy, the position of the loop and TreeSize's nodeCount.
Frame(node, kids) == [node |-> node, kids |-> kids, i |-> 1, count |-> 0]

Top == saved.stack[Len(saved.stack)]

\* The frames under the running one
Callers == SubSeq(saved.stack, 1, Len(saved.stack) - 1)

\* A call on a node whose own loop is still running never returns: nothing the
\* inner call reads has changed since the outer one read it.
OnStack(n) == \E k \in 1..Len(saved.stack) : saved.stack[k].node = n

RangeForElementReversed(s, i) == s[Len(s) + 1 - i]

\* for(auto child : s): the element the loop is at
RangeForElement(s, i) == s[i]

ReturnedNowhere(f, g) == f

\* nodeCount += TreeSize(i, false); nodeCount++; and the loop moves on
Returned(f, g) == [f EXCEPT !.count = @ + g.count + 1, !.i = @ + 1]

NoReturn(op, self) ==
    /\ pc' = "overflow" /\ saved' = saved
    /\ last' = Call(op, self, NULL, 0, NULL, "no_return")
    /\ UNCHANGED lib

\* a caller calls self->RecursiveDrop()
RecursiveDropCall(self) ==
    /\ pc = "make" /\ self \in Callable
    /\ pc' = "drop"
    /\ saved' = [saved EXCEPT !.stack = <<Frame(self, <<>>)>>, !.order = <<>>,
                              !.before = m_children, !.node = self]
    /\ UNCHANGED <<lib, last>>

\* child->RecursiveDrop() for the child the loop is at
RecursiveDropEnter ==
    /\ pc = "drop" /\ Top.i <= Len(m_children[Top.node])
    /\ LET child == RangeForElement(m_children[Top.node], Top.i)
       IN IF OnStack(child)
          THEN NoReturn("RecursiveDrop", saved.node)
          ELSE /\ pc' = "drop"
               /\ saved' = [saved EXCEPT !.stack =
                               Callers \o <<[Top EXCEPT !.i = @ + 1], Frame(child, <<>>)>>]
               /\ UNCHANGED <<lib, last>>

\* the loop is over: m_children.clear() and the call returns
RecursiveDropClear ==
    /\ pc = "drop" /\ Top.i > Len(m_children[Top.node])
    /\ pc' = IF Callers = <<>> THEN "returned" ELSE "drop"
    /\ saved' = [saved EXCEPT !.stack = Callers, !.order = Append(@, Top.node)]
    /\ Settle(m_content, m_parent, [m_children EXCEPT ![Top.node] = <<>>], m_root,
              built, {}, held,
              IF Callers = <<>>
              THEN Call("RecursiveDrop", saved.node, NULL, 0, NULL, "none")
              ELSE last)

\* a caller calls t.TreeSize(false)
TreeSizeCall(t) ==
    /\ pc = "make" /\ t \in built
    /\ pc' = "size"
    /\ saved' = [saved EXCEPT !.stack = <<Frame(NULL, m_root[t])>>, !.order = <<>>,
                              !.before = m_children, !.node = NULL, !.tree = t]
    /\ UNCHANGED <<lib, last>>

\* a caller calls t.TreeSize(startingNode, false)
TreeSizeFromCall(t, startingNode) ==
    /\ pc = "make" /\ t \in built /\ startingNode \in Callable
    /\ pc' = "size"
    /\ saved' = [saved EXCEPT !.stack = <<Frame(startingNode, m_children[startingNode])>>,
                              !.order = <<>>, !.before = m_children,
                              !.node = startingNode, !.tree = t]
    /\ UNCHANGED <<lib, last>>

\* TreeSize(i, false) for the element the loop is at
TreeSizeEnter ==
    /\ pc = "size" /\ Top.i <= Len(Top.kids)
    /\ LET i == RangeForElement(Top.kids, Top.i)
       IN IF OnStack(i)
          THEN NoReturn("TreeSize", saved.node)
          ELSE /\ pc' = "size"
               /\ saved' = [saved EXCEPT !.stack = Append(@, Frame(i, m_children[i]))]
               /\ UNCHANGED <<lib, last>>

\* the loop is over: return nodeCount
TreeSizeReturn ==
    /\ pc = "size" /\ Top.i > Len(Top.kids)
    /\ IF Callers = <<>>
       THEN /\ pc' = "returned"
            /\ saved' = [saved EXCEPT !.stack = <<>>]
            /\ last' = Call("TreeSize", saved.tree, saved.node, 0, Top.count, "none")
       ELSE /\ pc' = "size"
            /\ saved' = [saved EXCEPT !.stack =
                            SubSeq(Callers, 1, Len(Callers) - 1)
                            \o <<Returned(Callers[Len(Callers)], Top)>>]
            /\ last' = last
    /\ UNCHANGED lib

\* A call that has started runs on: nothing else runs in its thread.
WalkStep ==
    \/ RecursiveDropEnter
    \/ RecursiveDropClear
    \/ TreeSizeEnter
    \/ TreeSizeReturn

NextWalk ==
    \/ \E v \in TestValues : MakeFew /\ NewNode(v)
    \/ \E t \in Trees, v \in TestValues : MakeFew /\ TreeFromContent(t, v)
    \/ \E self \in Nodes, v \in TestValues : MakeFew /\ AppendValue(self, v)
    \/ \E self \in Nodes, node \in Nodes : MakeFew /\ AppendNode(self, node)
    \/ \E self \in Nodes : RecursiveDropCall(self)
    \/ \E t \in Trees : TreeSizeCall(t)
    \/ \E t \in Trees, startingNode \in Nodes : TreeSizeFromCall(t, startingNode)
    \/ RecursiveDropEnter
    \/ RecursiveDropClear
    \/ TreeSizeEnter
    \/ TreeSizeReturn

SpecWalk == InitOps /\ [][NextWalk]_vars

SpecWalkFair == SpecWalk /\ WF_vars(WalkStep)

\* ---- btree.hpp: BTreeNode ---------------------------------------------------
\* The callers of this part keep a shared_ptr to every node they make, so no
\* node is destroyed; they make at most MaxCalls calls.
MakeCall ==
    /\ pc = "make" /\ saved.calls < MaxCalls
    /\ pc' = "make" /\ saved' = [saved EXCEPT !.calls = @ + 1]

\* What the members of BTreeNode leave alone
notBTree == <<m_children, m_root, built, held, callsLeft, m_day, m_month, m_year>>

\* std::make_shared<BTreeNode<T>>(value)
BNewNode(value) ==
    /\ CanMake
    /\ LET n == Made
       IN /\ alive' = alive \cup {n}
          /\ m_content' = [m_content EXCEPT ![n] = value]
          /\ last' = Call("BNewNode", NULL, NULL, 0, n, "none")
    /\ UNCHANGED <<m_parent, m_childA, m_childB, notBTree>>

BThrows(op, self, node) ==
    /\ last' = Call(op, self, node, 0, NULL, "logic_error")
    /\ UNCHANGED <<m_content, m_parent, alive, m_childA, m_childB, notBTree>>

\* m_childX.reset(new BTreeNode(value)); m_childX->m_parent = GetSharedPtr()
BInsertValueA(self, n, value) ==
    /\ m_childA' = [m_childA EXCEPT ![self] = n]
    /\ m_childB' = m_childB
    /\ m_parent' = [m_parent EXCEPT ![n] = self]
    /\ m_content' = [m_content EXCEPT ![n] = value]
    /\ alive' = alive \cup {n}

BInsertValueSecond(self, n, value) ==
    /\ m_childB' = [m_childB EXCEPT ![self] = n]
    /\ m_childA' = [m_childA EXCEPT ![self] = NULL]
    /\ m_parent' = [m_parent EXCEPT ![n] = self]
    /\ m_content' = [m_content EXCEPT ![n] = value]
    /\ alive' = alive \cup {n}

BInsertValueB(self, n, value) ==
    /\ m_childB' = [m_childB EXCEPT ![self] = n]
    /\ m_childA' = m_childA
    /\ m_parent' = [m_parent EXCEPT ![n] = self]
    /\ m_content' = [m_content EXCEPT ![n] = value]
    /\ alive' = alive \cup {n}

\* BTreeNode::Insert(T value)
BInsertValue(self, value) ==
    /\ self \in alive
    /\ IF m_childA[self] = NULL
       THEN /\ CanMake
            /\ BInsertValueA(self, Made, value)
            /\ last' = Call("BInsertValue", self, NULL, 0, Made, "none")
            /\ UNCHANGED notBTree
       ELSE IF m_childB[self] = NULL
       THEN /\ CanMake
            /\ BInsertValueB(self, Made, value)
            /\ last' = Call("BInsertValue", self, NULL, 0, Made, "none")
            /\ UNCHANGED notBTree
       ELSE BThrows("BInsertValue", self, NULL)

\* BTreeNode::Insert(std::shared_ptr<BTreeNode<T>> node), node not null
BInsertNode(self, node) ==
    /\ self \in alive /\ node \in alive
    /\ IF m_childA[self] = NULL
       THEN /\ m_childA' = [m_childA EXCEPT ![self] = node]
            /\ m_parent' = [m_parent EXCEPT ![node] = self]
            /\ last' = Call("BInsertNode", self, node, 0, node, "none")
            /\ UNCHANGED <<m_content, alive, m_childB, notBTree>>
       ELSE IF m_childB[self] = NULL
       THEN /\ m_childB' = [m_childB EXCEPT ![self] = node]
            /\ m_parent' = [m_parent EXCEPT ![node] = self]
            /\ last' = Call("BInsertNode", self, node, 0, node, "none")
            /\ UNCHANGED <<m_content, alive, m_childA, notBTree>>
       ELSE BThrows("BInsertNode", self, node)

\* temp->m_parent.reset() for the child that leaves a slot, if there was one
BParentReset(temp) ==
    IF temp = NULL THEN m_parent ELSE [m_parent EXCEPT ![temp] = NULL]

\* BTreeNode::ChildA(T value): the new node's m_parent is not set
BChildAValue(self, value) ==
    /\ self \in alive /\ CanMake
    /\ LET n == Made
           temp == m_childA[self]
       IN /\ m_childA' = [m_childA EXCEPT ![self] = n]
          /\ m_parent' = BParentReset(temp)
          /\ m_content' = [m_content EXCEPT ![n] = value]
          /\ alive' = alive \cup {n}
          /\ last' = Call("BChildAValue", self, NULL, 0, IF temp = NULL THEN n ELSE temp, "none")
    /\ UNCHANGED <<m_childB, notBTree>>

\* BTreeNode::ChildA(node) and, with the same body, BTreeNode::ChildB(node):
\* both assign m_childA
BChildNode(op, self, node) ==
    /\ self \in alive /\ node \in alive \cup {NULL}
    /\ LET temp == m_childA[self]
       IN /\ m_childA' = [m_childA EXCEPT ![self] = node]
          /\ m_parent' = BParentReset(temp)
          /\ last' = Call(op, self, node, 0, IF temp = NULL THEN node ELSE temp, "none")
    /\ UNCHANGED <<m_content, alive, m_childB, notBTree>>

BChildANode(self, node) == BChildNode("BChildANode", self, node)

BChildBNode(self, node) == BChildNode("BChildBNode", self, node)

\* BTreeNode::ChildB(T value)
BChildBValue(self, value) ==
    /\ self \in alive /\ CanMake
    /\ LET n == Made
           temp == m_childB[self]
       IN /\ m_childB' = [m_childB EXCEPT ![self] = n]
          /\ m_parent' = BParentReset(temp)
          /\ m_content' = [m_content EXCEPT ![n] = value]
          /\ alive' = alive \cup {n}
          /\ last' = Call("BChildBValue", self, NULL, 0, IF temp = NULL THEN n ELSE temp, "none")
    /\ UNCHANGED <<m_childA, notBTree>>

\* BTreeNode::ClearChildren()
BClearChildren(self) ==
    /\ self \in alive
    /\ m_childA' = [m_childA EXCEPT ![self] = NULL]
    /\ m_childB' = [m_childB EXCEPT ![self] = NULL]
    /\ last' = Call("BClearChildren", self, NULL, 0, NULL, "none")
    /\ UNCHANGED <<m_content, m_parent, alive, notBTree>>

NextBTree ==
    \/ \E v \in TestValues : MakeCall /\ BNewNode(v)
    \/ \E self \in Nodes, v \in TestValues : MakeCall /\ BInsertValue(self, v)
    \/ \E self \in Nodes, node \in Nodes : MakeCall /\ BInsertNode(self, node)
    \/ \E self \in Nodes, v \in TestValues : MakeCall /\ BChildAValue(self, v)
    \/ \E self \in Nodes, node \in Nodes \cup {NULL} : MakeCall /\ BChildANode(self, node)
    \/ \E self \in Nodes, v \in TestValues : MakeCall /\ BChildBValue(self, v)
    \/ \E self \in Nodes, node \in Nodes \cup {NULL} : MakeCall /\ BChildBNode(self, node)
    \/ \E self \in Nodes : MakeCall /\ BClearChildren(self)

SpecBTree == InitOps /\ [][NextBTree]_vars

\* ---- libdate: Date -----------------------------------------------------------
DayInputs == {0 - 40, 0 - 1, 0, 1, 28, 29, 30, 31, 32, 62}

MonthInputs == {0 - 12, 0 - 1, 0, 1, 2, 3, 4, 11, 12, 13, 14, 26}

YearInputs == {1900, 2023, 2024, 2025}

\* the numbers of days taken off a date and put back
DaysInputs == 0..MaxDays

\* a bool as the int it converts to
Bool(b) == IF b THEN 1 ELSE 0

\* What the members of Date leave alone
notDate == <<m_content, m_parent, m_children, m_root, built, alive, held, callsLeft,
             m_childA, m_childB>>

\* Date::Date(int day, int month, int year, bool month_as_index)
Date(day, month, year, month_as_index) ==
    /\ pc = "make"
    /\ m_day' = day
    /\ m_month' = IF month_as_index THEN month + 1 ELSE month
    /\ m_year' = year
    /\ pc' = "date"
    /\ saved' = [saved EXCEPT !.args = [day |-> day, month |-> month, year |-> year,
                                        month_as_index |-> month_as_index]]
    /\ last' = Call("Date", NULL, NULL, month, NULL, "none")
    /\ UNCHANGED notDate

\* Date::Get_Month(bool month_as_index)
Get_MonthResult(month_as_index) == IF month_as_index THEN m_month ELSE m_month + 1

Get_Month(month_as_index) ==
    /\ pc \in {"date", "validated"}
    /\ last' = Call("Get_Month", NULL, NULL, Bool(month_as_index),
                    Get_MonthResult(month_as_index), "none")
    /\ UNCHANGED <<m_day, m_month, m_year, pc, saved, notDate>>

\* int month_days[12], with month_days[1] as the loop last set it
month_days(index) ==
    IF index = 1 THEN saved.feb
    ELSE <<31, 28, 31, 30, 31, 30, 31, 31, 30, 31, 30, 31>>[index + 1]

\* Date::Validate_Date is called: adjusted = false, validating = true
Validate_Date ==
    /\ pc = "date"
    /\ pc' = "leap"
    /\ saved' = [saved EXCEPT !.adjusted = FALSE, !.feb = 28]
    /\ UNCHANGED <<m_day, m_month, m_year, last, notDate>>

\* month_days[1] = ((m_year % 4) == 0) ? 29 : 28;
ValidateLeap ==
    /\ pc = "leap"
    /\ pc' = "monthHigh"
    /\ saved' = [saved EXCEPT !.feb = IF m_year % 4 = 0 THEN 29 ELSE 28]
    /\ UNCHANGED <<m_day, m_month, m_year, last, notDate>>

\* while(m_month > 12): one turn, or the loop's exit
ValidateMonthHigh ==
    /\ pc = "monthHigh"
    /\ IF m_month > 12
       THEN /\ m_month' = m_month - 12 /\ m_year' = m_year + 1
            /\ saved' = [saved EXCEPT !.adjusted = TRUE]
            /\ pc' = "monthHigh"
       ELSE /\ pc' = "monthLow"
            /\ UNCHANGED <<m_month, m_year, saved>>
    /\ UNCHANGED <<m_day, last, notDate>>

\* while(m_month < 1): one turn, or the loop's exit
ValidateMonthLow ==
    /\ pc = "monthLow"
    /\ IF m_month < 1
       THEN /\ m_month' = m_month + 12 /\ m_year' = m_year - 1
            /\ saved' = [saved EXCEPT !.adjusted = TRUE]
            /\ pc' = "monthLow"
       ELSE /\ pc' = "dayHigh"
            /\ UNCHANGED <<m_month, m_year, saved>>
    /\ UNCHANGED <<m_day, last, notDate>>

\* if(m_day > month_days[m_month - 1])
ValidateDayHigh ==
    /\ pc = "dayHigh"
    /\ pc' = "dayLow"
    /\ IF m_day > month_days(m_month - 1)
       THEN /\ m_day' = m_day - month_days(m_month - 1)
            /\ m_month' = m_month + 1
            /\ saved' = [saved EXCEPT !.adjusted = TRUE]
       ELSE UNCHANGED <<m_day, m_month, saved>>
    /\ UNCHANGED <<m_year, last, notDate>>

\* if(m_day < 1)
ValidateDayLow ==
    /\ pc = "dayLow"
    /\ pc' = "check"
    /\ IF m_day < 1
       THEN /\ m_day' = month_days(m_month - 1) - (m_day * (0 - 1))
            /\ m_month' = m_month - 1
            /\ saved' = [saved EXCEPT !.adjusted = TRUE]
       ELSE UNCHANGED <<m_day, m_month, saved>>
    /\ UNCHANGED <<m_year, last, notDate>>

\* the test that ends the loop, and return !adjusted
ValidateCheck ==
    /\ pc = "check"
    /\ IF (m_month >= 1 /\ m_month <= 12)
          /\ (m_day >= 1 /\ m_day <= month_days(m_month - 1))
       THEN /\ pc' = "validated"
            /\ last' = Call("Validate_Date", NULL, NULL, 0, Bool(~saved.adjusted), "none")
       ELSE /\ pc' = "leap"
            /\ last' = last
    /\ UNCHANGED <<m_day, m_month, m_year, saved, notDate>>

\* m_day changes by delta and this->Validate_Date() starts
ThenValidate(op, days, delta) ==
    /\ m_day' = m_day + delta
    /\ pc' = "leap"
    /\ last' = Call(op, NULL, NULL, days, NULL, "none")
    /\ UNCHANGED <<m_month, m_year, notDate>>

\* The caller takes days off a date that Validate_Date has found in order,
TakeOff(days) ==
    /\ pc = "validated" /\ saved.phase = 0 /\ ~saved.adjusted
    /\ saved' = [saved EXCEPT !.phase = 1, !.days = days, !.adjusted = FALSE, !.feb = 28,
                              !.from = [day |-> m_day, month |-> m_month, year |-> m_year]]

\* and when that call has returned puts the same number back.
PutBack(days) ==
    /\ pc = "validated" /\ saved.phase = 1 /\ days = saved.days
    /\ saved' = [saved EXCEPT !.phase = 2, !.adjusted = FALSE, !.feb = 28]

\* Date::operator--()
OperatorDecrement == TakeOff(1) /\ ThenValidate("operator--", 1, 0 - 1)

\* Date::operator-=(int days)
OperatorMinusAssign(days) == TakeOff(days) /\ ThenValidate("operator-=", days, 0 - days)

\* Date::operator++()
OperatorIncrement == PutBack(1) /\ ThenValidate("operator++", 1, 1)

\* Date::operator+=(int days)
OperatorPlusAssign(days) == PutBack(days) /\ ThenValidate("operator+=", days, days)

\* Date::Add_Days(int days)
Add_Days(days) == PutBack(days) /\ ThenValidate("Add_Days", days, days)

\* A call of Validate_Date that has started runs on.
ValidateStep ==
    \/ ValidateLeap
    \/ ValidateMonthHigh
    \/ ValidateMonthLow
    \/ ValidateDayHigh
    \/ ValidateDayLow
    \/ ValidateCheck

NextDate ==
    \/ \E day \in DayInputs, month \in MonthInputs, year \in YearInputs,
          month_as_index \in BOOLEAN : Date(day, month, year, month_as_index)
    \/ \E month_as_index \in BOOLEAN : Get_Month(month_as_index)
    \/ Validate_Date
    \/ OperatorDecrement
    \/ \E days \in DaysInputs : OperatorMinusAssign(days)
    \/ OperatorIncrement
    \/ \E days \in DaysInputs : OperatorPlusAssign(days)
    \/ \E days \in DaysInputs : Add_Days(days)
    \/ ValidateLeap
    \/ ValidateMonthHigh
    \/ ValidateMonthLow
    \/ ValidateDayHigh
    \/ ValidateDayLow
    \/ ValidateCheck

SpecDate == InitOps /\ [][NextDate]_vars

SpecDateFair == SpecDate /\ WF_vars(ValidateStep)

\* ---- properties ------------------------------------------------------------

\* number of times x occurs in s
Count(s, x) == Cardinality({i \in 1..Len(s) : s[i] = x})

\* number of containers' slots that hold node n
RECURSIVE SumOver(_, _, _)
SumOver(S, seqOf, x) ==
    IF S = {} THEN 0
    ELSE LET e == CHOOSE e \in S : TRUE
         IN Count(seqOf[e], x) + SumOver(S \ {e}, seqOf, x)

Owners(n) == SumOver(alive, m_children, n) + SumOver(built, m_root, n)

\* the nodes reachable from the roots of tree t
InTree(t) == ReachFrom(Range(m_root[t]) \ {NULL}, m_children)

\* C1: every node c in the children of a node p has a parent reference that
\* resolves to p, whatever calls were made (I2).
C1_ParentConsistency ==
    \A p \in alive : \A c \in Range(m_children[p]) : Lock(c) = p

\* C2: every node is held by at most one container: it occurs at most once
\* in all the children sequences and root sequences together (I1).
C2_SingleOwnership ==
    \A n \in alive : Owners(n) <= 1

C4_DropDetachInsertSize ==
    (pc = "inserted" /\ saved.dropped) =>
        /\ TreeSize(Tree1) = saved.size0 - Cardinality(saved.below)
        /\ saved.node \in InTree(Tree1)

C4_Witness ==
    /\ pc = "inserted" /\ saved.dropped
    /\ Cardinality(saved.below) >= 2
    /\ Tree2 \in built

\* C5: after n.Detatch() on a node whose parent reference resolved to a live
\* node, n's own parent reference is empty.
C5_DetachClearsParent ==
    pc = "detached" => m_parent[saved.node] = NULL

\* C6: n.Detatch() on a node with live parent p takes n out of p's children,
\* the other children keeping their order, returns n and leaves the subtree
\* of n as it was: n as the only root of a forest has size descendants + 1.
C6_DetachPreservesSubtree ==
    [][pc' \in {"detached", "detached2"} =>
        LET n == saved'.node
            p == Lock(n)
        IN p # NULL =>
            /\ m_children'[p] = SelectSeq(m_children[p], LAMBDA x : x # n)
            /\ last'.ret = n
            /\ \A d \in ReachFrom({n}, m_children) : m_children'[d] = m_children[d]
            /\ CountSeq(<<n>>, m_children') = Cardinality(Desc(n, m_children)) + 1]_vars

C6_Witness ==
    /\ pc = "detached"
    /\ Desc(saved.node, m_children) # {}
    /\ Len(m_children[saved.parent]) >= 2

\* C7: h.Detatch() and then parent.Insert(h, i) with i within the children
\* leave h's parent reference resolving to parent, h at position i of
\* parent's children and TreeSize() as it was before the Detatch.
C7_DetachInsertRoundTrip ==
    (pc = "inserted" /\ last.index >= 0 /\ last.index < Len(m_children[saved.parent])) =>
        /\ Lock(saved.node) = saved.parent
        /\ m_children[saved.parent][last.index + 1] = saved.node
        /\ TreeSize(Tree1) = saved.size1

C7_Witness ==
    /\ pc = "inserted"
    /\ last.index = 1
    /\ Len(m_children[saved.parent]) = 3
    /\ m_children[saved.node] # <<>>

\* C8: a tree built from one root by N Append(value) calls on its nodes has
\* TreeSize() = N + 1.
C8_AppendSize ==
    (pc = "build" /\ Len(m_root[Tree1]) = 1) => TreeSize(Tree1) = saved.appends + 1

C8_Witness ==
    /\ pc = "build" /\ Len(m_root[Tree1]) = 1
    /\ saved.appends >= 3
    /\ \E n \in alive : Lock(n) # NULL /\ Lock(Lock(n)) # NULL

\* C9: after tree.Clear() TreeSize() is 0 and RootNode() is empty, whatever
\* the tree held before.
C9_ClearEmpties ==
    pc = "cleared" => (TreeSize(last.self) = 0 /\ m_root[last.self] = <<>>)

C9_Witness ==
    /\ pc = "cleared"
    /\ saved.size0 >= 3

\* C10: every insert-like call given an index greater than the length of its
\* target sequence raises no error, puts the new element last and returns a
\* handle to it.
C10_IndexLeniency ==
    [][LET c == last' IN
        /\ (/\ c.op \in {"InsertValue", "InsertNode"}
            /\ c.op = "InsertNode" => c.node # NULL
            /\ ~UIntLE(c.index, Len(m_children[c.self])))
           => /\ c.err = "none"
              /\ c.ret # NULL
              /\ m_children'[c.self] = Append(m_children[c.self], c.ret)
        /\ (/\ c.op \in {"AddRootNodeNode", "AddRootNodeContent"}
            /\ c.op = "AddRootNodeNode" => c.node # NULL
            /\ c.index > Len(m_root[c.self]))
           => /\ c.err = "none"
              /\ c.ret # NULL
              /\ m_root'[c.self] = Append(m_root[c.self], c.ret)]_vars

\* C11: Insert(x, index) with 0 <= index <= len(children), x a value or a
\* node, raises no error, returns the new child, puts it at position index
\* with the earlier children in their order around it (one child more), and
\* sets its parent reference to this node.
C11_InRangeInsert ==
    [][LET c == last' IN
        (/\ c.op \in {"InsertValue", "InsertNode"}
         /\ c.op = "InsertNode" => c.node # NULL
         /\ UIntLE(c.index, Len(m_children[c.self])))
        => /\ c.err = "none"
           /\ c.ret # NULL
           /\ m_children'[c.self] = InsertAt(m_children[c.self], c.index, c.ret)
           /\ Len(m_children'[c.self]) = Len(m_children[c.self]) + 1
           /\ m_parent'[c.ret] = c.self]_vars

\* C12: TreeNode::Insert, given a value or a node, throws std::out_of_range
\* when the index given is less than 0.
C12_NegativeIndexThrows ==
    [][LET c == last' IN
        (/\ c.op \in {"InsertValue", "InsertNode"}
         /\ c.op = "InsertNode" => c.node # NULL
         /\ c.index < 0)
        => c.err = "out_of_range"]_vars

\* C13: Insert(node, index), Append(node) and AddRootNode(node, index) given
\* a null node fail with std::invalid_argument and leave every children
\* sequence and every root sequence as it was.
C13_NullNodeRejected ==
    [][LET c == last' IN
        (c.op \in {"InsertNode", "AppendNode", "AddRootNodeNode"} /\ c.node = NULL)
        => /\ c.err = "invalid_argument"
           /\ m_children' = m_children
           /\ m_root' = m_root]_vars

\* C14: RemoveChild(index) with index >= len(children) fails with
\* std::out_of_range and leaves the children as they were (a negative
\* argument is an index of 2^31 or more); with index < len(children) it
\* removes the child at that position and keeps the others in their order.
C14_RemoveChildIndex ==
    [][LET c == last'
           old == m_children[c.self]
           new == m_children'[c.self]
       IN c.op = "RemoveChildIndex" =>
            IF c.index < 0 \/ c.index >= Len(old)
            THEN c.err = "out_of_range" /\ m_children' = m_children
            ELSE /\ c.err = "none"
                 /\ Len(new) = Len(old) - 1
                 /\ \A j \in 1..Len(new) :
                        new[j] = IF j <= c.index THEN old[j] ELSE old[j + 1]]_vars

C14_Witness ==
    /\ pc = "used" /\ last.op = "RemoveChildIndex" /\ last.err = "none"
    /\ last.index = 1
    /\ Len(m_children[last.self]) = 2

C16_FindChildPosition ==
    [][LET c == last'
           at == {i \in 1..Len(m_children[c.self]) : m_children[c.self][i] = c.node}
       IN c.op = "FindChild" =>
            IF at = {} THEN c.ret = 0 - 1
            ELSE \E i \in at : (\A j \in at : i <= j) /\ c.ret = i - 1]_vars

\* C17: a comparison of a node with a value gives what the comparison of the
\* node's content with that value gives, for each of the six relations.
C17_NodeValueComparison ==
    [][LET c == last'
           a == m_content[c.self]
           v == c.ret.value
       IN c.op = "CompareValue" =>
            c.ret.is = CASE c.ret.rel = "==" -> a = v
                         [] c.ret.rel = "!=" -> a # v
                         [] c.ret.rel = "<" -> a < v
                         [] c.ret.rel = ">" -> a > v
                         [] c.ret.rel = "<=" -> a <= v
                         [] c.ret.rel = ">=" -> a >= v]_vars

\* C18: a comparison of two nodes with contents a and b gives a = b, a < b,
\* a > b for ==, <, >, whatever their parents and children are; != gives the
\* negation of ==, <= the negation of >, and >= the negation of <.
C18_NodeNodeComparison ==
    [][LET c == last'
           a == m_content[c.self]
           b == m_content[c.node]
       IN c.op = "CompareNodes" =>
            c.ret.is = CASE c.ret.rel = "==" -> a = b
                         [] c.ret.rel = "!=" -> ~(a = b)
                         [] c.ret.rel = "<" -> a < b
                         [] c.ret.rel = ">" -> a > b
                         [] c.ret.rel = "<=" -> ~(a > b)
                         [] c.ret.rel = ">=" -> ~(a < b)]_vars

C18_Witness ==
    /\ pc = "used" /\ last.op = "CompareNodes"
    /\ last.ret.rel = ">" /\ last.ret.is
    /\ Lock(last.self) # NULL
    /\ m_children[last.node] # <<>>

\* C19: Swap(NodeA, NodeB) exchanges the two contents and nothing else;
\* Content(value) and operator=(value) replace the content of that node and
\* nothing else; no parent reference and no children sequence changes.
C19_ContentOnly ==
    [][LET c == last' IN
        /\ c.op \in {"Swap", "Content", "Assign"} =>
             /\ m_parent' = m_parent /\ m_children' = m_children
             /\ alive' = alive /\ m_root' = m_root
        /\ c.op = "Swap" =>
             /\ m_content'[c.self] = m_content[c.node]
             /\ m_content'[c.node] = m_content[c.self]
             /\ \A n \in Nodes \ {c.self, c.node} : m_content'[n] = m_content[n]
        /\ c.op = "Content" =>
             /\ m_content'[c.self] = c.ret
             /\ \A n \in Nodes \ {c.self} : m_content'[n] = m_content[n]
        /\ c.op = "Assign" =>
             /\ m_content'[c.self] = c.ret.value
             /\ \A n \in Nodes \ {c.self} : m_content'[n] = m_content[n]]_vars

C19_Witness ==
    /\ pc = "used" /\ last.op = "Swap"
    /\ m_content[last.self] # m_content[last.node]
    /\ m_children[last.self] # <<>>
    /\ Lock(last.node) # NULL

\* C20: Drop() on a node whose parent reference resolves to a live node takes
\* the node out of that parent's children, and in every case returns the
\* node's own children in their order.
C20_Drop ==
    [][LET c == last'
           p == Lock(c.self)
       IN c.op = "Drop" =>
            /\ p # NULL =>
                 m_children'[p] = SelectSeq(m_children[p], LAMBDA x : x # c.self)
            /\ c.ret = m_children[c.self]]_vars

C20_Witness ==
    /\ pc = "used" /\ last.op = "Drop"
    /\ Len(last.ret) >= 2
    /\ last.self \notin alive
    /\ \E p \in alive \ Range(last.ret) : TRUE

\* number of slots of the children sequences and root sequences given that
\* hold node n
OwnersIn(n, children, root) == SumOver(Nodes, children, n) + SumOver(Trees, root, n)

\* C21: Detatch() on a node whose parent reference was set and whose parent
\* has been destroyed returns null, not the node.
C21_StaleDetachReturnsNull ==
    [][(last'.op = "Detatch" /\ m_parent[last'.self] = EXPIRED)
        => last'.ret = NULL]_vars

\* C22: whenever the parent reference of a node n resolves to p, n is in the
\* children of p: a root and a node removed from its parent have none.
C22_ParentOnlyWhileChild ==
    \A n \in alive : Lock(n) # NULL => n \in Range(m_children[Lock(n)])

\* C25: between the Detatch() of a node that was a child or a root of a tree
\* and the call that attaches it elsewhere, the node is in no children
\* sequence and in no root sequence.
C25_OwnerlessBetween ==
    pc \in {"detached", "detached2"} => Owners(saved.node) = 0

\* C26: after n.Drop() no node of the list returned is in a children
\* sequence, that of n included, or in a root sequence.
C26_DroppedChildrenOwnerless ==
    [][last'.op = "Drop" =>
        \A k \in Range(last'.ret) : OwnersIn(k, m_children', m_root') = 0]_vars

\* no node is its own descendant
Acyclic(children) == \A n \in Nodes : n \notin Desc(n, children)

\* C24: from an acyclic children relation only Insert and Append of an
\* existing node lead to one in which a node is its own descendant; every
\* other operation leaves the relation acyclic.
C24_NoCycleByItself ==
    [][(Acyclic(m_children) /\ ~Acyclic(m_children'))
        => last'.op \in {"InsertNode", "AppendNode"}]_vars

C24_Witness ==
    /\ pc = "used" /\ last.op = "AppendValue"
    /\ Acyclic(m_children)
    /\ \E n \in alive : Lock(n) # NULL /\ Lock(Lock(n)) # NULL

\* C23: on a forest whose children relation is acyclic, a started TreeSize()
\* or RecursiveDrop() call returns.
C23_Terminates ==
    (pc \in {"drop", "size"} /\ Acyclic(saved.before)) ~> (pc = "returned")

C23_Witness ==
    /\ pc = "returned" /\ last.op = "TreeSize" /\ last.ret >= 3
    /\ Acyclic(saved.before)

\* The nodes below and at n in the order a depth-first walk that takes the
\* children from left to right finishes them.
RECURSIVE PostOrderSeq(_, _)
PostOrderSeq(s, children) ==
    IF s = <<>> THEN <<>>
    ELSE PostOrderSeq(children[Head(s)], children) \o <<Head(s)>>
         \o PostOrderSeq(Tail(s), children)

PostOrder(n, children) == PostOrderSeq(children[n], children) \o <<n>>

\* a sequence without the later occurrences of its elements
RECURSIVE FirstVisits(_)
FirstVisits(s) ==
    IF s = <<>> THEN <<>>
    ELSE LET r == FirstVisits(SubSeq(s, 1, Len(s) - 1))
         IN IF s[Len(s)] \in Range(r) THEN r ELSE Append(r, s[Len(s)])

\* C27: n.RecursiveDrop() finishes the nodes below n depth-first, children
\* from left to right; the children sequence of a node changes only when all
\* nodes that were below it have been processed; on return the children
\* sequences of n and of every former descendant of n are empty.
C27_DepthFirstLeftToRight ==
    /\ pc = "drop" =>
          \A x \in Nodes : m_children[x] # saved.before[x] =>
              \A d \in Desc(x, saved.before) : m_children[d] = <<>>
    /\ (pc = "returned" /\ last.op = "RecursiveDrop") =>
          /\ FirstVisits(saved.order) = FirstVisits(PostOrder(saved.node, saved.before))
          /\ \A d \in ReachFrom({saved.node}, saved.before) : m_children[d] = <<>>

C27_Witness ==
    /\ pc = "returned" /\ last.op = "RecursiveDrop"
    /\ Len(saved.before[saved.node]) >= 2
    /\ Len(saved.order) >= 3

\* C28: BTreeNode::Insert, of a value or of a node, puts the child in slot A
\* when A is empty, else in slot B when B is empty, and makes this node the
\* child's parent; with both slots taken it throws and changes neither slot.
C28_InsertFirstEmptySlot ==
    [][last'.op \in {"BInsertValue", "BInsertNode"} =>
        LET self == last'.self
            child == last'.ret
        IN IF m_childA[self] = NULL
           THEN /\ last'.err = "none"
                /\ m_childA'[self] = child /\ m_childB'[self] = m_childB[self]
                /\ child \in alive' /\ m_parent'[child] = self
                /\ last'.op = "BInsertNode" => child = last'.node
                /\ last'.op = "BInsertValue" => child \notin alive
           ELSE IF m_childB[self] = NULL
           THEN /\ last'.err = "none"
                /\ m_childB'[self] = child /\ m_childA'[self] = m_childA[self]
                /\ child \in alive' /\ m_parent'[child] = self
                /\ last'.op = "BInsertNode" => child = last'.node
                /\ last'.op = "BInsertValue" => child \notin alive
           ELSE /\ last'.err = "logic_error"
                /\ m_childA' = m_childA /\ m_childB' = m_childB]_vars

C28_Witness ==
    /\ last.op = "BInsertValue" /\ last.err = "none"
    /\ m_childB[last.self] = last.ret
    /\ m_childA[last.self] \notin {NULL, last.ret}

\* the calendar's rule: every fourth year, but of the centuries every fourth
LeapYear(year) == year % 4 = 0 /\ (year % 100 # 0 \/ year % 400 = 0)

DaysInMonth(month, year) ==
    IF month = 2 THEN (IF LeapYear(year) THEN 29 ELSE 28)
    ELSE <<31, 28, 31, 30, 31, 30, 31, 31, 30, 31, 30, 31>>[month]

\* the fields the constructor stored, with which Validate_Date is called
Stored ==
    [day |-> saved.args.day,
     month |-> IF saved.args.month_as_index THEN saved.args.month + 1 ELSE saved.args.month,
     year |-> saved.args.year]

\* C29: Validate_Date returns, then the month is in 1..12 and the day in
\* 1..(days of that month of that year), and the result is true exactly when
\* the fields are those it was called with.
C29_ValidateNormalises ==
    (pc = "validated" /\ saved.phase = 0) =>
        /\ m_month \in 1..12
        /\ m_day >= 1 /\ m_day <= DaysInMonth(m_month, m_year)
        /\ last.op = "Validate_Date" =>
              (last.ret = 1 <=> (m_day = Stored.day /\ m_month = Stored.month
                             /\ m_year = Stored.year))

\* The parts of C29 the code keeps: a started call returns,
ValidateDateReturns == (pc = "leap") ~> (pc = "validated")

\* with the month in 1..12, the day at least 1, and true exactly when no
\* field was changed.
ValidateDateReports ==
    (pc = "validated" /\ saved.phase = 0) =>
        /\ m_month \in 1..12 /\ m_day >= 1 /\ m_day <= 31
        /\ last.op = "Validate_Date" =>
              (last.ret = 1 <=> (m_day = Stored.day /\ m_month = Stored.month
                             /\ m_year = Stored.year))

\* C30: a Date made with month_as_index = true and index m in 0..11 gives m
\* from Get_Month(true) and m + 1 from Get_Month(false).
C30_MonthIndexRoundTrip ==
    (pc = "date" /\ last.op = "Get_Month"
     /\ saved.args.month_as_index /\ saved.args.month \in 0..11)
    => last.ret = IF last.index = 1 THEN saved.args.month ELSE saved.args.month + 1

\* C31: Child(index) reads inside the children sequence only: null for a
\* node without children, children[index] for 0 <= index < len(children),
\* the last child for every other index, index == len(children) included.
C31_ChildInBounds ==
    last.op = "Child" =>
        LET children == m_children[last.self]
        IN /\ last.err = "none"
           /\ last.ret = IF children = <<>> THEN NULL
                         ELSE IF last.index >= 0 /\ last.index < Len(children)
                         THEN children[last.index + 1]
                         ELSE children[Len(children)]

\* C32: the root sequence of a Tree holds no null handle, whichever
\* constructor or AddRootNode overload made it.
C32_NoNullRoot ==
    \A t \in built : NULL \notin Range(m_root[t])

\* C33: ChildB(node) puts node in slot B and leaves slot A as it was,
\* ChildA(node) puts node in slot A and leaves slot B as it was; each
\* returns the node that was in its slot when there was one.
C33_SlotSetters ==
    [][/\ last'.op = "BChildANode" =>
             /\ m_childA'[last'.self] = last'.node
             /\ m_childB' = m_childB
             /\ m_childA[last'.self] # NULL => last'.ret = m_childA[last'.self]
       /\ last'.op = "BChildBNode" =>
             /\ m_childB'[last'.self] = last'.node
             /\ m_childA' = m_childA
             /\ m_childB[last'.self] # NULL => last'.ret = m_childB[last'.self]]_vars

\* a date of the calendar
ValidDate(d) ==
    /\ d.month \in 1..12
    /\ d.day >= 1 /\ d.day <= DaysInMonth(d.month, d.year)

\* the day before the first of a month
LastOfPreviousMonth(d) ==
    IF d.month = 1 THEN [day |-> 31, month |-> 12, year |-> d.year - 1]
    ELSE [day |-> DaysInMonth(d.month - 1, d.year), month |-> d.month - 1, year |-> d.year]

Today == [day |-> m_day, month |-> m_month, year |-> m_year]

\* C34: taking n >= 0 days off a valid date and adding n days again gives
\* the date back; one day off the first of a month gives the last day of
\* the month before.
C34_DayRoundTrip ==
    (pc = "validated" /\ saved.phase > 0 /\ ValidDate(saved.from)) =>
        /\ saved.phase = 2 => Today = saved.from
        /\ (saved.phase = 1 /\ saved.days = 1 /\ saved.from.day = 1)
              => Today = LastOfPreviousMonth(saved.from)

====
